---- MODULE Spec2Model ----
(***************************************************************************)
(* StringIndexMarisa: a string column index built on a marisa trie.        *)
(* The model follows src/internal/core/src/index/StringIndexMarisa.cpp.    *)
(* One caller owns one index instance at a time, may replace it by a newly  *)
(* constructed one, and holds the BinarySet returned by the last Serialize, *)
(* which it may hand, as it is or damaged, to Load.                        *)
(***************************************************************************)
EXTENDS Integers, Sequences, FiniteSets, TLC

\* ---------------------------------------------------------------- bounds
MaxRows == 2
MaxVals == 1
MaxPopulate == 2

\* ------------------------------------------------------------- constants
NUL == 0
sizeof_size_t == 8
NotFoundId == 0

SeqsUpTo(S, n) == UNION {[1..k -> S] : k \in 0..n}

\* The strings rows, values and prefixes are drawn from: "", "a", and "a"
\* followed by a NUL byte.
Strings == {<<>>, <<97>>, <<97, NUL>>}
Columns == SeqsUpTo(Strings, MaxRows)

\* The value lists In and NotIn are called with: up to MaxVals values, or one
\* value given twice.
ValueLists == SeqsUpTo(Strings, MaxVals) \cup {<<v, v>> : v \in Strings}

Elems(s) == {s[k] : k \in DOMAIN s}

\* ------------------------------------------------- strings and the trie
\* std::string::c_str() handed to an API that takes a C string: the bytes
\* up to the first NUL.
RECURSIVE c_str(_)
c_str(s) ==
  IF s = <<>> \/ Head(s) = NUL THEN <<>> ELSE <<Head(s)>> \o c_str(Tail(s))

StartsWith(s, p) == Len(p) <= Len(s) /\ SubSeq(s, 1, Len(p)) = p

\* A default-constructed marisa::Trie holds no trie at all.
NullTrie == [null |-> TRUE, id |-> <<>>]

\* keyset.push_back(values[i].c_str()) for every row.
Keyset(values) == {c_str(values[k]) : k \in DOMAIN values}

\* trie_.build(keyset): every distinct key gets a dense ordinal ID; which key
\* gets which ID is the trie's own business.
IdAssignments(keys) ==
  {f \in [keys -> 0..(Cardinality(keys) - 1)] :
     \A a, b \in keys : a # b => f[a] # f[b]}

\* trie_.lookup(agent) on a trie that was never built or read throws.
trie_throws(trie) == trie.null

\* lookup(): the result of trie_.lookup is not tested, so a key that is not
\* stored leaves the ID of the freshly constructed agent's key.
lookup(trie, str) ==
  IF c_str(str) \in DOMAIN trie.id THEN trie.id[c_str(str)] ELSE NotFoundId

\* prefix_match(): the IDs of every stored key that starts with the prefix.
prefix_match(trie, prefix) ==
  {trie.id[k] : k \in {key \in DOMAIN trie.id : StartsWith(key, c_str(prefix))}}

\* ---------------------------------------------------------- offset index
fill_str_ids(trie, values) ==
  [k \in 1..Len(values) |-> lookup(trie, values[k])]

RECURSIVE fill_offsets_from(_, _, _)
fill_offsets_from(str_ids, m, offset) ==
  IF offset >= Len(str_ids) THEN m
  ELSE LET str_id == str_ids[offset + 1]
           m1 == IF str_id \in DOMAIN m THEN m ELSE m @@ (str_id :> <<>>)
       IN  fill_offsets_from(str_ids,
                             [m1 EXCEPT ![str_id] = Append(@, offset)],
                             offset + 1)

fill_offsets(str_ids, m) == fill_offsets_from(str_ids, m, 0)

\* ---------------------------------------------------------------- bitmap
\* TargetBitmap of a given size; bits is the set of positions that are set.
TargetBitmap(size) == [size |-> size, bits |-> {}]

\* set_all that leaves the last bit clear.
set_all_but_last(bitmap) == [bitmap EXCEPT !.bits = 0..(bitmap.size - 2)]

set_all(bitmap) == [bitmap EXCEPT !.bits = 0..(bitmap.size - 1)]

Negate(bitmap) == [bitmap EXCEPT !.bits = (0..(bitmap.size - 1)) \ bitmap.bits]

\* str_ids_to_offsets_[str_id]: operator[] of the map inserts an empty list
\* for a key that is not there yet.
subscript(m, str_id) == IF str_id \in DOMAIN m THEN m ELSE m @@ (str_id :> <<>>)

\* The state of a query loop: the bitmap so far, the map as operator[] has
\* left it, and whether set()/reset() was called with a position >= size.
QueryState(bitmap, m) == [bitmap |-> bitmap, m |-> m, oob |-> FALSE]

set_offsets(q, offsets) ==
  [q EXCEPT !.bitmap.bits = @ \cup {o \in Elems(offsets) : o < q.bitmap.size},
            !.oob = @ \/ \E o \in Elems(offsets) : o >= q.bitmap.size]

\* reset_offsets that clears the first offset of the list only.
reset_offsets_first(q, offsets) ==
  [q EXCEPT !.bitmap.bits = @ \ (IF offsets = <<>> THEN {} ELSE {offsets[1]}),
            !.oob = @ \/ \E o \in Elems(offsets) : o >= q.bitmap.size]

reset_offsets(q, offsets) ==
  [q EXCEPT !.bitmap.bits = @ \ Elems(offsets),
            !.oob = @ \/ \E o \in Elems(offsets) : o >= q.bitmap.size]

\* A call's outcomes.  A position past the end of the bitmap is outside the
\* bitset's contract: the call either dies on the bitset's assertion or goes
\* on with the bits that are in range.
NoBitmap == TargetBitmap(0)

Thrown(m) == {[status |-> "throw", bitmap |-> NoBitmap, m |-> m]}

Returned(q) ==
  {[status |-> "ok", bitmap |-> q.bitmap, m |-> q.m]}
  \cup (IF q.oob THEN {[status |-> "abort", bitmap |-> NoBitmap, m |-> q.m]}
        ELSE {})

\* ----------------------------------------------------------------- query
RECURSIVE In_loop(_, _, _, _)
In_loop(trie, values, i, q) ==
  IF i > Len(values) THEN q
  ELSE LET str_id == lookup(trie, values[i])
           m1 == subscript(q.m, str_id)
       IN  In_loop(trie, values, i + 1,
                   set_offsets([q EXCEPT !.m = m1], m1[str_id]))

In_call(trie, str_ids, m, values) ==
  IF Len(values) > 0 /\ trie_throws(trie) THEN Thrown(m)
  ELSE Returned(In_loop(trie, values, 1,
                        QueryState(TargetBitmap(Len(str_ids)), m)))

RECURSIVE NotIn_loop(_, _, _, _)
NotIn_loop(trie, values, i, q) ==
  IF i > Len(values) THEN q
  ELSE LET str_id == lookup(trie, values[i])
           m1 == subscript(q.m, str_id)
       IN  NotIn_loop(trie, values, i + 1,
                      reset_offsets([q EXCEPT !.m = m1], m1[str_id]))

NotIn_call(trie, str_ids, m, values) ==
  IF Len(values) > 0 /\ trie_throws(trie) THEN Thrown(m)
  ELSE Returned(NotIn_loop(trie, values, 1,
                           QueryState(set_all(TargetBitmap(Len(str_ids))), m)))

RECURSIVE PrefixMatch_loop(_, _)
PrefixMatch_loop(matched, q) ==
  IF matched = {} THEN q
  ELSE LET str_id == CHOOSE x \in matched : TRUE
           m1 == subscript(q.m, str_id)
       IN  PrefixMatch_loop(matched \ {str_id},
                            set_offsets([q EXCEPT !.m = m1], m1[str_id]))

PrefixMatch_call(trie, str_ids, m, prefix) ==
  IF trie_throws(trie) THEN Thrown(m)
  ELSE Returned(PrefixMatch_loop(prefix_match(trie, prefix),
                                 QueryState(TargetBitmap(Len(str_ids)), m)))

\* ---------------------------------------------------- serialization codec
MARISA_TRIE_INDEX == "marisa_trie_index"
MARISA_STR_IDS == "marisa_str_ids"

\* x shifted right by j bytes.
RECURSIVE ShiftBytes(_, _)
ShiftBytes(x, j) == IF j = 0 THEN x ELSE ShiftBytes(x \div 256, j - 1)

\* The bytes of one size_t in the host's (little-endian) order.
size_t_bytes(x) == [j \in 1..sizeof_size_t |-> ShiftBytes(x, j - 1) % 256]

RECURSIVE size_t_value(_)
size_t_value(bytes) ==
  IF bytes = <<>> THEN 0 ELSE Head(bytes) + 256 * size_t_value(Tail(bytes))

\* memcpy(str_ids.get(), str_ids_.data(), str_ids_.size() * sizeof(size_t))
RECURSIVE str_ids_bytes(_)
str_ids_bytes(str_ids) ==
  IF str_ids = <<>> THEN <<>>
  ELSE size_t_bytes(Head(str_ids)) \o str_ids_bytes(Tail(str_ids))

\* str_ids_from_bytes with the vector resized one element short.
str_ids_from_bytes_short(bytes) ==
  [k \in 1..((Len(bytes) \div sizeof_size_t) - 1) |->
     size_t_value(SubSeq(bytes, (k - 1) * sizeof_size_t + 1, k * sizeof_size_t))]

\* str_ids_.resize(str_ids_len / sizeof(size_t)) and the memcpy into it: the
\* elements the resized vector holds.
str_ids_from_bytes(bytes) ==
  [k \in 1..(Len(bytes) \div sizeof_size_t) |->
     size_t_value(SubSeq(bytes, (k - 1) * sizeof_size_t + 1, k * sizeof_size_t))]

\* The memcpy copies str_ids_len bytes, which is more than the resized vector
\* holds when the length is not a multiple of sizeof(size_t).
memcpy_overruns(bytes) == Len(bytes) % sizeof_size_t # 0

\* A BinarySet: the names it holds, the trie image (whether trie_.read accepts
\* it, and the trie it decodes to) and the bytes of the IDs segment.
BinarySet(names, ok, trie, bytes) ==
  [names |-> names, index |-> [ok |-> ok, trie |-> trie], str_ids |-> bytes]

EmptyBinarySet == BinarySet({}, FALSE, NullTrie, <<>>)

\* Serialize_result with the IDs written in reverse row order.
Serialize_result_reversed(trie, str_ids) ==
  BinarySet({MARISA_TRIE_INDEX, MARISA_STR_IDS}, TRUE, trie,
            str_ids_bytes([k \in 1..Len(str_ids) |-> str_ids[Len(str_ids) + 1 - k]]))

\* What Serialize returns for an instance whose trie can be written.
Serialize_result(trie, str_ids) ==
  BinarySet({MARISA_TRIE_INDEX, MARISA_STR_IDS}, TRUE, trie, str_ids_bytes(str_ids))

\* The BinarySets a caller may pass to Load: the one it holds, or that one
\* with a segment missing, the trie image damaged, or the IDs segment cut.
LoadInputs(set) ==
  {set}
  \cup {BinarySet(set.names \ {MARISA_TRIE_INDEX}, FALSE, NullTrie, set.str_ids),
        BinarySet(set.names \ {MARISA_STR_IDS}, set.index.ok, set.index.trie, <<>>),
        BinarySet(set.names, FALSE, NullTrie, set.str_ids)}
  \cup {BinarySet(set.names, set.index.ok, set.index.trie,
                  SubSeq(set.str_ids, 1, Len(set.str_ids) - cut)) :
          cut \in {c \in 1..(sizeof_size_t - 1) : c <= Len(set.str_ids)}}

\* ----------------------------------------------------------------- state
VARIABLES
  built_,               \* the built_ flag
  trie_,                \* the marisa trie
  str_ids_,             \* row offset -> ordinal ID
  str_ids_to_offsets_,  \* ordinal ID -> list of row offsets
  store,                \* the BinarySet the caller holds
  ret,                  \* the last call: operation, outcome, bitmap returned,
                        \* and whether its staging file is still there
  hist,                 \* the Build/Load calls that wrote to the current
                        \* instance, in order
  writes,               \* how many Build/Load calls have written, in all
  halted,               \* the process has died
  io                    \* the staging I/O loop a Serialize or Load call is
                        \* in: the call, the statement it is at, and the
                        \* BinarySet a Load was given

vars ==
  <<built_, trie_, str_ids_, str_ids_to_offsets_, store, ret, hist, writes, halted,
    io>>

\* No call is in a staging I/O loop.
Idle == [op |-> "none", pc |-> "none", set |-> EmptyBinarySet]

Call(op, status, bitmap, staged) ==
  [op |-> op, status |-> status, bitmap |-> bitmap, staged |-> staged]

\* A newly constructed instance.
Constructed ==
  /\ built_ = FALSE
  /\ trie_ = NullTrie
  /\ str_ids_ = <<>>
  /\ str_ids_to_offsets_ = <<>>

Init ==
  /\ Constructed
  /\ store = EmptyBinarySet
  /\ ret = Call("none", "ok", NoBitmap, FALSE)
  /\ hist = <<>>
  /\ writes = 0
  /\ halted = FALSE
  /\ io = Idle

\* Build and Load calls are explored while fewer than MaxPopulate of them
\* have written to an instance.
Budget == writes < MaxPopulate

\* ------------------------------------------------------------ operations
\* The caller drops the instance and constructs a new one.
New ==
  /\ ~halted /\ io = Idle
  /\ Budget
  /\ hist # <<>>
  /\ built_' = FALSE
  /\ trie_' = NullTrie
  /\ str_ids_' = <<>>
  /\ str_ids_to_offsets_' = <<>>
  /\ hist' = <<>>
  /\ ret' = Call("New", "ok", NoBitmap, FALSE)
  /\ UNCHANGED <<store, writes, halted, io>>

\* Build on an instance whose built_ flag is set: throws, writes nothing.
Build_rejected ==
  /\ ret' = Call("Build", "throw", NoBitmap, FALSE)
  /\ UNCHANGED <<built_, trie_, str_ids_, str_ids_to_offsets_, store, hist, writes,
                  halted, io>>

\* trie_.build(keyset); fill_str_ids(n, values); fill_offsets(); built_ = true
Build_run(values) ==
  \E id \in IdAssignments(Keyset(values)) :
    LET trie == [null |-> FALSE, id |-> id]
        str_ids == fill_str_ids(trie, values)
    IN  /\ trie_' = trie
        /\ str_ids_' = str_ids
        /\ str_ids_to_offsets_' = fill_offsets(str_ids, str_ids_to_offsets_)
        /\ built_' = TRUE
        /\ hist' = Append(hist, "Build")
        /\ writes' = writes + 1
        /\ ret' = Call("Build", "ok", NoBitmap, FALSE)
        /\ UNCHANGED <<store, halted, io>>

\* Build without the test of built_.
Build_unguarded(values) ==
  /\ ~halted /\ io = Idle
  /\ Budget
  /\ Build_run(values)

Build(values) ==
  /\ ~halted /\ io = Idle
  /\ Budget
  /\ IF built_ THEN Build_rejected ELSE Build_run(values)

\* Serialize: the staging file is created first; trie_.write throws on a trie
\* that holds nothing, and then close and remove are not reached.
Serialize_return ==
  /\ IF trie_throws(trie_)
     THEN /\ ret' = Call("Serialize", "throw", NoBitmap, TRUE)
          /\ UNCHANGED store
     ELSE /\ store' = Serialize_result(trie_, str_ids_)
          /\ ret' = Call("Serialize", "ok", NoBitmap, FALSE)
  /\ UNCHANGED <<built_, trie_, str_ids_, str_ids_to_offsets_, hist, writes, halted>>

\* A Serialize call whose read of the staging file delivers the whole file.
Serialize ==
  /\ ~halted /\ io = Idle
  /\ Serialize_return
  /\ UNCHANGED io

\* What a Load call leaves: its outcome, the three members, what it adds to
\* hist, and whether its staging file is still there.
Loaded(status, trie, str_ids, m, wrote, staged) ==
  [status |-> status, trie |-> trie, str_ids |-> str_ids, m |-> m,
   wrote |-> wrote, staged |-> staged]

\* Load, in the order of the code: the trie segment is fetched, staged and
\* read into trie_; then the IDs segment is fetched and copied into str_ids_;
\* then fill_offsets() runs on the map as it is.  built_ is not assigned.
\* Copying more bytes than the resized vector holds is outside memcpy's
\* contract: the call either goes on or the process dies.
Load_call(trie, str_ids, m, set) ==
  IF MARISA_TRIE_INDEX \notin set.names
  THEN {Loaded("throw", trie, str_ids, m, <<>>, FALSE)}
  ELSE IF ~set.index.ok
  THEN {Loaded("throw", trie, str_ids, m, <<>>, TRUE)}
  ELSE IF MARISA_STR_IDS \notin set.names
  THEN {Loaded("throw", set.index.trie, str_ids, m, <<"LoadFailed">>, FALSE)}
  ELSE LET ids == str_ids_from_bytes(set.str_ids) IN
       {Loaded(status, set.index.trie, ids, fill_offsets(ids, m), <<"Load">>, FALSE) :
          status \in (IF memcpy_overruns(set.str_ids) THEN {"ok", "abort"} ELSE {"ok"})}

Load_return(set) ==
  /\ \E out \in Load_call(trie_, str_ids_, str_ids_to_offsets_, set) :
       /\ trie_' = out.trie
       /\ str_ids_' = out.str_ids
       /\ str_ids_to_offsets_' = out.m
       /\ hist' = hist \o out.wrote
       /\ writes' = writes + Len(out.wrote)
       /\ ret' = Call("Load", out.status, NoBitmap, out.staged)
       /\ halted' = (out.status = "abort")
  /\ UNCHANGED <<built_, store>>

\* A Load call whose write to the staging file takes the whole segment.
Load(set) ==
  /\ ~halted /\ io = Idle
  /\ Budget
  /\ Load_return(set)
  /\ UNCHANGED io

Query(op, outcomes) ==
  /\ ~halted /\ io = Idle
  /\ \E out \in outcomes :
       /\ str_ids_to_offsets_' = out.m
       /\ ret' = Call(op, out.status, out.bitmap, FALSE)
       /\ halted' = (out.status = "abort")
  /\ UNCHANGED <<built_, trie_, str_ids_, store, hist, writes, io>>

In(values) == Query("In", In_call(trie_, str_ids_, str_ids_to_offsets_, values))

NotIn(values) ==
  Query("NotIn", NotIn_call(trie_, str_ids_, str_ids_to_offsets_, values))

PrefixMatch(prefix) ==
  Query("PrefixMatch", PrefixMatch_call(trie_, str_ids_, str_ids_to_offsets_, prefix))

\* The arguments of the two Range overloads: a value with an operator, or a
\* lower and an upper bound with their inclusivity flags.
OperatorTypes == {"GreaterThan", "LessEqual"}

\* The values and bounds Range is called with: "" and "a".
RangeValues == {<<>>, <<97>>}

RangeArgs ==
  [value : RangeValues, op : OperatorTypes]
  \cup [lower_bound_value : RangeValues, lb_inclusive : BOOLEAN,
        upper_bound_value : RangeValues, ub_inclusive : BOOLEAN]

\* Range that answers with an empty bitmap.
Range_call_empty(m, args) == Returned(QueryState(NoBitmap, m))

\* Both overloads: throw std::runtime_error("todo: unsupported now").
Range_call(m, args) == Thrown(m)

Range(args) == Query("Range", Range_call(str_ids_to_offsets_, args))

Next ==
  \/ New
  \/ \E values \in Columns : Build(values)
  \/ Serialize
  \/ \E set \in LoadInputs(store) : Load(set)
  \/ \E values \in ValueLists : In(values)
  \/ \E values \in ValueLists : NotIn(values)
  \/ \E prefix \in Strings : PrefixMatch(prefix)
  \/ \E args \in RangeArgs : Range(args)

Spec == Init /\ [][Next]_vars

\* ------------------------------------------------ the staging I/O loops
\* The same calls with the loops around read() and write() taken one
\* statement at a time.  read() and write() deliver the whole count, or less
\* than it (an error, or a short count).
IoResults == {"whole", "fault"}

InLoop(op, pc, set) == [op |-> op, pc |-> pc, set |-> set]

\* Serialize up to its read loop: open, trie_.write(fd), get_file_size.
Serialize_open ==
  /\ ~halted /\ io = Idle
  /\ IF trie_throws(trie_)
     THEN Serialize_return /\ UNCHANGED io
     ELSE /\ io' = InLoop("Serialize", "read", EmptyBinarySet)
          /\ ret' = Call("Serialize", "running", NoBitmap, TRUE)
          /\ UNCHANGED <<built_, trie_, str_ids_, str_ids_to_offsets_, store, hist,
                          writes, halted>>

\* while (read(fd, buf, size) != size): leave the loop and finish, or go to
\* the lseek in its body.
Serialize_read ==
  /\ io.op = "Serialize" /\ io.pc = "read"
  /\ \E result \in IoResults :
       IF result = "whole"
       THEN Serialize_return /\ io' = Idle
       ELSE /\ io' = [io EXCEPT !.pc = "lseek"]
            /\ UNCHANGED <<built_, trie_, str_ids_, str_ids_to_offsets_, store, ret,
                            hist, writes, halted>>

\* Load up to its write loop: GetByName(MARISA_TRIE_INDEX), open, lseek.
Load_open(set) ==
  /\ ~halted /\ io = Idle
  /\ Budget
  /\ IF MARISA_TRIE_INDEX \notin set.names
     THEN Load_return(set) /\ UNCHANGED io
     ELSE /\ io' = InLoop("Load", "write", set)
          /\ ret' = Call("Load", "running", NoBitmap, TRUE)
          /\ UNCHANGED <<built_, trie_, str_ids_, str_ids_to_offsets_, store, hist,
                          writes, halted>>

\* while (write(fd, index->data.get(), len) != len): leave the loop and go
\* on with the rest of Load, or go to the lseek in its body.
Load_write ==
  /\ io.op = "Load" /\ io.pc = "write"
  /\ \E result \in IoResults :
       IF result = "whole"
       THEN Load_return(io.set) /\ io' = Idle
       ELSE /\ io' = [io EXCEPT !.pc = "lseek"]
            /\ UNCHANGED <<built_, trie_, str_ids_, str_ids_to_offsets_, store, ret,
                            hist, writes, halted>>

\* lseek(fd, 0, SEEK_SET) in the body of either loop, then the loop's test
\* again.
Retry_lseek ==
  /\ io.pc = "lseek"
  /\ io' = [io EXCEPT !.pc = IF io.op = "Serialize" THEN "read" ELSE "write"]
  /\ UNCHANGED <<built_, trie_, str_ids_, str_ids_to_offsets_, store, ret, hist,
                  writes, halted>>

StagingStep == Serialize_read \/ Load_write \/ Retry_lseek

NextIO ==
  \/ New
  \/ \E values \in Columns : Build(values)
  \/ Serialize_open
  \/ Serialize_read
  \/ \E set \in LoadInputs(store) : Load_open(set)
  \/ Load_write
  \/ Retry_lseek
  \/ \E values \in ValueLists : In(values)
  \/ \E values \in ValueLists : NotIn(values)
  \/ \E prefix \in Strings : PrefixMatch(prefix)
  \/ \E args \in RangeArgs : Range(args)

\* A call that is in a loop goes on executing.
SpecIO == Init /\ [][NextIO]_vars /\ WF_vars(StagingStep)

\* The BinarySets Serialize returns for the indexes Build makes of up to
\* MaxRows rows.
StoredSets ==
  UNION {{Serialize_result([null |-> FALSE, id |-> id],
                           fill_str_ids([null |-> FALSE, id |-> id], values)) :
            id \in IdAssignments(Keyset(values))} : values \in Columns}

\* The same program, started by a caller that holds a BinarySet which an
\* earlier run has serialized.
InitLoaded ==
  /\ Constructed
  /\ store \in StoredSets
  /\ ret = Call("none", "ok", NoBitmap, FALSE)
  /\ hist = <<>>
  /\ writes = 0
  /\ halted = FALSE
  /\ io = Idle

SpecLoaded == InitLoaded /\ [][Next]_vars

\* ------------------------------------------------------- claim vocabulary
\* A Build or a Load has returned normally on the current instance.
Succeeded == \E k \in DOMAIN hist : hist[k] \in {"Build", "Load"}

\* The current instance is as one Build on a new instance has left it.
BuiltByBuild == hist = <<"Build">>

\* What a caller sees of a call: whether it returned, and the bitmap.
Seen(outcomes) == {[status |-> o.status, bitmap |-> o.bitmap] : o \in outcomes}

\* The bitmap of size n whose bit o is set iff Matches(o) holds.
Exactly(n, Matches(_)) ==
  [size |-> n, bits |-> {o \in 0..(n - 1) : Matches(o)}]

QueryOps == {"In", "NotIn", "PrefixMatch"}

\* How many times offset o stands in a list of offsets.
Count(offsets, o) == Cardinality({i \in DOMAIN offsets : offsets[i] = o})

\* Every call that wrote to the current instance was a Build or a Load that
\* succeeded, and there was one at least.
OnlySucceeded == hist # <<>> /\ \A k \in DOMAIN hist : hist[k] \in {"Build", "Load"}

\* ---------------------------------------------------------------- claims
\* C1: whenever Build(values) completes on a newly constructed instance,
\* In(V) on that instance returns, for every list V, the bitmap of size n
\* whose bit i is set iff values[i] is one of the values of V; a value of V
\* that is not stored contributes no bit.
C1_InIsExact ==
  [][\A values \in Columns :
       (ret'.op = "Build" /\ ret'.status = "ok" /\ hist = <<>>
        /\ Build(values))
       => \A V \in ValueLists :
            Seen(In_call(trie_', str_ids_', str_ids_to_offsets_', V))
            = {[status |-> "ok",
                bitmap |-> LET Matches(o) == values[o + 1] \in Elems(V)
                           IN  Exactly(Len(values), Matches)]}]_vars

\* C2: round trip.  Whenever Serialize has returned on an instance x built
\* by Build, Load of the BinarySet it produced into a newly constructed
\* instance y succeeds, and y answers In(V), NotIn(V) and PrefixMatch(p) as x
\* does, for every value list V and every prefix p.
C2_RoundTrip ==
  (ret.op = "Serialize" /\ ret.status = "ok" /\ BuiltByBuild) =>
    \A y \in Load_call(NullTrie, <<>>, <<>>, store) :
      /\ y.status = "ok"
      /\ \A V \in ValueLists :
           /\ Seen(In_call(y.trie, y.str_ids, y.m, V))
              = Seen(In_call(trie_, str_ids_, str_ids_to_offsets_, V))
           /\ Seen(NotIn_call(y.trie, y.str_ids, y.m, V))
              = Seen(NotIn_call(trie_, str_ids_, str_ids_to_offsets_, V))
      /\ \A p \in Strings :
           Seen(PrefixMatch_call(y.trie, y.str_ids, y.m, p))
           = Seen(PrefixMatch_call(trie_, str_ids_, str_ids_to_offsets_, p))

\* An instance built over two rows of different values has been serialized.
C2_Witness ==
  /\ ret.op = "Serialize" /\ ret.status = "ok"
  /\ BuiltByBuild
  /\ store = Serialize_result(trie_, str_ids_)
  /\ Len(str_ids_) = 2 /\ str_ids_[1] # str_ids_[2]

\* C3: lifecycle.  Once a Build or a Load has succeeded on an instance, the
\* instance is Built and stays so, and every later Build call on it is
\* rejected.
C3_BuiltForGood ==
  /\ [](Succeeded => built_)
  /\ [][\A values \in Columns :
          (ret'.op = "Build" /\ Succeeded /\ Build(values))
          => ret'.status = "throw"]_vars

\* C4: whenever Build(values) completes on a newly constructed instance,
\* PrefixMatch(p) on that instance returns, for every prefix p, the bitmap
\* of size n whose bit i is set iff values[i] starts with p (all-zero, and
\* no error, when no row does).
C4_PrefixMatchIsExact ==
  [][\A values \in Columns :
       (ret'.op = "Build" /\ ret'.status = "ok" /\ hist = <<>>
        /\ Build(values))
       => \A p \in Strings :
            Seen(PrefixMatch_call(trie_', str_ids_', str_ids_to_offsets_', p))
            = {[status |-> "ok",
                bitmap |-> LET Matches(o) == StartsWith(values[o + 1], p)
                           IN  Exactly(Len(values), Matches)]}]_vars

\* C5: whenever a NotIn call has ended on a Built instance, then for every
\* value list V, absent and duplicated values included, NotIn(V) returns
\* when In(V) does, and the bitmap it returns is the bitwise negation of the
\* one In(V) returns.
C5_NotInNegatesIn ==
  (ret.op = "NotIn" /\ Succeeded) =>
    \A V \in ValueLists :
      LET in == Seen(In_call(trie_, str_ids_, str_ids_to_offsets_, V))
          notin == Seen(NotIn_call(trie_, str_ids_, str_ids_to_offsets_, V))
      IN  /\ {r.status : r \in in} = {r.status : r \in notin}
          /\ \A a \in in, b \in notin :
               (a.status = "ok" /\ b.status = "ok") => b.bitmap = Negate(a.bitmap)

\* NotIn has returned a bitmap with one of two bits set on a built instance.
C5_Witness ==
  /\ ret.op = "NotIn" /\ ret.status = "ok"
  /\ Succeeded
  /\ ret.bitmap.size = 2 /\ Cardinality(ret.bitmap.bits) = 1

\* C6: a Build call on an instance whose Build has succeeded fails and
\* leaves the trie, row_to_id, id_to_offsets and the built flag as they
\* were (In, NotIn and PrefixMatch read nothing else, so they answer after
\* it as before it).
C6_SecondBuildRejected ==
  [][(ret'.op = "Build" /\ built_ /\ \E values \in Columns : Build(values))
       => /\ ret'.status = "throw"
          /\ UNCHANGED <<built_, trie_, str_ids_, str_ids_to_offsets_>>]_vars

\* A Build call has been rejected on an instance built over two rows.
C6_Witness ==
  /\ ret.op = "Build" /\ ret.status = "throw"
  /\ built_ /\ BuiltByBuild /\ Len(str_ids_) = 2

\* C7: a Load call that fails leaves the trie, row_to_id and id_to_offsets
\* as they were before the call.
C7_FailedLoadLeavesNothing ==
  [][(ret'.op = "Load" /\ ret'.status = "throw"
      /\ \E set \in LoadInputs(store) : Load(set))
     => UNCHANGED <<trie_, str_ids_, str_ids_to_offsets_>>]_vars

\* C8: In, NotIn and PrefixMatch called on an instance on which no Build or
\* Load has succeeded fail, and do not change the instance.
C8_QueryNeedsBuilt ==
  [][(ret'.op \in QueryOps /\ ~Succeeded
      /\ \/ \E V \in ValueLists : In(V) \/ NotIn(V)
         \/ \E p \in Strings : PrefixMatch(p))
     => /\ ret'.status = "throw"
        /\ UNCHANGED <<built_, trie_, str_ids_, str_ids_to_offsets_>>]_vars

\* C9: on a Built instance, with any number of rows, an In, NotIn or
\* PrefixMatch call leaves row_to_id, id_to_offsets (its keys and its lists)
\* and the trie as they were.
C9_QueriesWriteNothing ==
  [][(ret'.op \in QueryOps /\ Succeeded
      /\ \/ \E V \in ValueLists : In(V) \/ NotIn(V)
         \/ \E p \in Strings : PrefixMatch(p))
     => UNCHANGED <<trie_, str_ids_, str_ids_to_offsets_>>]_vars

\* C10: Load of a BinarySet whose IDs segment has a byte length that is not
\* a multiple of sizeof(size_t) does not return normally and produces no
\* row_to_id from the cut data.
C10_MisalignedLoadFails ==
  [][\A set \in LoadInputs(store) :
       (ret'.op = "Load" /\ MARISA_STR_IDS \in set.names
        /\ memcpy_overruns(set.str_ids) /\ Load(set))
       => (ret'.status # "ok" /\ str_ids_' = str_ids_)]_vars

\* C11: a Range call, of either overload, with any arguments and on any
\* instance, built or not, fails and leaves the instance as it was.
C11_RangeUnsupported ==
  [][(ret'.op = "Range" /\ \E args \in RangeArgs : Range(args))
     => /\ ret'.status = "throw"
        /\ UNCHANGED <<built_, trie_, str_ids_, str_ids_to_offsets_>>]_vars

\* Range has failed on an instance built over two rows.
C11_Witness ==
  /\ ret.op = "Range" /\ ret.status = "throw"
  /\ BuiltByBuild /\ Len(str_ids_) = 2

\* C12: on every instance on which a Build or a Load has succeeded and that
\* has n > 0 rows, PrefixMatch of the empty prefix returns the bitmap of size
\* n with every bit set.
C12_EmptyPrefixMatchesAll ==
  (Succeeded /\ Len(str_ids_) > 0) =>
    Seen(PrefixMatch_call(trie_, str_ids_, str_ids_to_offsets_, <<>>))
    = {[status |-> "ok", bitmap |-> set_all(TargetBitmap(Len(str_ids_)))]}

\* C13: on every instance on which a Build or a Load has succeeded, with n
\* rows, an In call with no values returns the all-zero bitmap of size n and
\* a NotIn call with no values returns the all-one bitmap of size n.
C13_EmptyValueList ==
  [][/\ (ret'.op = "In" /\ Succeeded /\ In(<<>>))
        => ret' = Call("In", "ok", [size |-> Len(str_ids_), bits |-> {}], FALSE)
     /\ (ret'.op = "NotIn" /\ Succeeded /\ NotIn(<<>>))
        => ret' = Call("NotIn", "ok",
                       [size |-> Len(str_ids_), bits |-> 0..(Len(str_ids_) - 1)],
                       FALSE)]_vars

\* NotIn has returned two set bits of two on an instance built over two
\* rows: only a call with no values does, since a value that is not stored is
\* looked up as ID 0 and clears the rows of ID 0.
C13_Witness ==
  /\ ret.op = "NotIn" /\ ret.status = "ok"
  /\ BuiltByBuild
  /\ ret.bitmap = [size |-> 2, bits |-> {0, 1}]

\* C14: offset index.  After any sequence of successful Build and Load calls
\* on one instance, with n the length of row_to_id: every offset o < n stands
\* exactly once in the list of its row's ID, and the lists together hold
\* every offset below n once and nothing else.
C14_OffsetIndex ==
  OnlySucceeded =>
    LET n == Len(str_ids_)
        m == str_ids_to_offsets_
    IN  /\ \A o \in 0..(n - 1) :
             str_ids_[o + 1] \in DOMAIN m /\ Count(m[str_ids_[o + 1]], o) = 1
        /\ \A id \in DOMAIN m : Elems(m[id]) \subseteq 0..(n - 1)
        /\ \A o \in 0..(n - 1) :
             Cardinality({id \in DOMAIN m : o \in Elems(m[id])}) = 1

\* C15: fill_offsets is idempotent.  For the row_to_id of every state, a
\* second run of fill_offsets right after a first one (on a map that was
\* empty) leaves the map as the first run made it, every list in strictly
\* ascending order.
C15_FillOffsetsIdempotent ==
  LET once == fill_offsets(str_ids_, <<>>)
      twice == fill_offsets(str_ids_, once)
  IN  /\ twice = once
      /\ \A id \in DOMAIN twice :
           \A i, j \in DOMAIN twice[id] : i < j => twice[id][i] < twice[id][j]

\* C16: staging file.  Whenever a Serialize or a Load call has ended, by
\* returning or by failing, the staging file it created is gone.
C16_StagingFileReleased ==
  ret.op \in {"Serialize", "Load"} => ~ret.staged

\* C17: a Serialize or Load call that has reached its staging I/O loop
\* returns to its caller in the end, whatever read() and write() deliver; a
\* fault is not retried.
C17_StagingFaultsSurface == (io.op # "none") ~> (io.op = "none")

\* C19: whenever a Build call has succeeded, every ordinal ID of the trie is
\* a key of id_to_offsets with a list that is not empty, and id_to_offsets
\* has no other key.
C19_KeysAreTrieIds ==
  (ret.op = "Build" /\ ret.status = "ok") =>
    LET ids == {trie_.id[key] : key \in DOMAIN trie_.id}
    IN  /\ \A id \in ids :
             id \in DOMAIN str_ids_to_offsets_ /\ str_ids_to_offsets_[id] # <<>>
        /\ DOMAIN str_ids_to_offsets_ \subseteq ids

====
